---- MODULE Spec2Model ----
(***************************************************************************)
(* PanBinaural (src/lib/interfaces/panbinaural.js): a panel on which point *)
(* markers are placed and dragged around a listener at the panel centre.   *)
(*                                                                         *)
(* Number representation.  Pixel coordinates are integers.  Lengths in     *)
(* metres are integers in units of 1/MeterUnit metre.  Angles in degrees   *)
(* are integers in units of 1/DegUnit degree, angles in radians are        *)
(* integer multiples of pi/PI.  Math.cos and Math.sin return numerators    *)
(* over TrigDen.  The trigonometric operators are defined on the axis      *)
(* directions and on the 3-4-5 directions, where sine and cosine are       *)
(* rational, so every product the code forms is computed without rounding; *)
(* no other direction is ever given to them (TLC stops on one).            *)
(***************************************************************************)
EXTENDS Integers, Sequences, FiniteSets, TLC

VARIABLES val, activePoint, sourceElements, labelElements, children,
          clicked, clickable, newPointsGeneratable, transmitMode,
          currentColorIndex, headOrientation, angleRelativeToHead,
          emitted, threw, last, returned

vars == <<val, activePoint, sourceElements, labelElements, children,
          clicked, clickable, newPointsGeneratable, transmitMode,
          currentColorIndex, headOrientation, angleRelativeToHead,
          emitted, threw, last, returned>>

----------------------------------------------------------------------------
(* Bounds of the model *)

\* largest number of points the collection is let grow to
MaxPoints == 2

----------------------------------------------------------------------------
(* Program constants *)

width == 700
height == 700
meterScale == 100
nodeSize == 30
\* units per metre of a length in metres
MeterUnit == 1000
\* units per degree of an angle in degrees
DegUnit == 100
\* Math.PI in radian units: half a turn
PI == 36000
\* denominator of the values of Math.cos and Math.sin
TrigDen == 5

\* JavaScript's undefined, where an index is expected
undefined == -1

activeBorderColor == "#000"
customColors == <<"#845ec2", "#d65db1", "#ff6f91", "#ff9671",
                  "#ffc75f", "#f9f871", "#2f4858", "#2e6775">>

Min(a, b) == IF a <= b THEN a ELSE b

\* v is computed, once, and F is applied to its value: "x = v; return F(x)"
Then(v, F(_)) == CHOOSE r \in {F(x) : x \in {v}} : TRUE

circleCenterX == width \div 2
circleCenterY == height \div 2
bgRadius == Min(circleCenterX, circleCenterY) - 50

\* new Point(x, y, label, colorIndex); pid is the object's identity
Point(x, y, label, colorIndex, pid) ==
  [x |-> x, y |-> y, label |-> label, colorIndex |-> colorIndex, pid |-> pid]

listenerPoint == Point(circleCenterX, circleCenterY, [text |-> "Listener", n |-> 0], 0, 0)

----------------------------------------------------------------------------
(* JavaScript arrays are indexed from 0 *)

At(a, i) == a[i + 1]
SetAt(a, i, v) == [a EXCEPT ![i + 1] = v]
\* a.splice(i, 1)
Splice(a, i) == SubSeq(a, 1, i) \o SubSeq(a, i + 2, Len(a))

----------------------------------------------------------------------------
(* Math *)

Abs(a) == IF a < 0 THEN -a ELSE a

RECURSIVE Gcd(_, _)
Gcd(a, b) == IF b = 0 THEN a ELSE Then(a % b, LAMBDA r : Gcd(b, r))

RECURSIVE SqrtBetween(_, _, _)
SqrtBetween(n, lo, hi) ==
  IF lo >= hi THEN lo
  ELSE Then((lo + hi + 1) \div 2,
            LAMBDA mid : IF mid <= n \div mid THEN SqrtBetween(n, mid, hi)
                                              ELSE SqrtBetween(n, lo, mid - 1))

\* Math.sqrt: the integer square root, exact on the squares the model forms
Sqrt(n) == SqrtBetween(n, 0, n)

\* the angle of the direction (x, y), 0 <= x, 0 <= y, in radian units
FirstQuadrant(x, y) ==
  Then(Gcd(x, y), LAMBDA g :
  Then(IF g = 0 THEN <<0, 0>> ELSE <<x \div g, y \div g>>, LAMBDA d :
    CASE d = <<0, 0>> -> 0
      [] d = <<1, 0>> -> 0
      [] d = <<4, 3>> -> 7374
      [] d = <<3, 4>> -> 10626
      [] d = <<0, 1>> -> 18000))

\* Math.atan2(y, x), in radian units, in (-PI, PI]
Atan2(y, x) ==
  Then(FirstQuadrant(Abs(x), Abs(y)), LAMBDA a :
    IF x >= 0 THEN (IF y >= 0 THEN a ELSE -a)
    ELSE (IF y >= 0 THEN PI - a ELSE -(PI - a)))

\* cosine of an angle of the first quadrant
CosQ(a) ==
  CASE a = 0 -> 5
    [] a = 7374 -> 4
    [] a = 10626 -> 3
    [] a = 18000 -> 0

\* Math.cos(r), r in radian units
Cos(r) ==
  Then(r % (2 * PI), LAMBDA q :
    IF q <= PI \div 2 THEN CosQ(q)
    ELSE IF q <= PI THEN -CosQ(PI - q)
    ELSE IF q <= PI + PI \div 2 THEN -CosQ(q - PI)
    ELSE CosQ(2 * PI - q))

\* Math.sin(r), r in radian units
Sin(r) == Cos(r - PI \div 2)

----------------------------------------------------------------------------
(* Unit conversions and geometry *)

convertToMeters(pixels) == (pixels * MeterUnit) \div meterScale

convertToPixels(meters) == (meters * meterScale) \div MeterUnit

polToCar(distance, angleDeg) ==
  Then((angleDeg * PI) \div (180 * DegUnit), LAMBDA angleRad :
    [x |-> (distance * Cos(angleRad)) \div TrigDen,
     y |-> (distance * Sin(angleRad)) \div TrigDen])

calculateDistance(pointA, pointB) ==
  LET distX == pointB.x - pointA.x
      distY == pointB.y - pointA.y
  IN Then(distX * distX + distY * distY, LAMBDA sum :
     Then(Sqrt(sum), LAMBDA lengthInPx : convertToMeters(lengthInPx)))

\* t is the object: the record of its fields
calculateAngle(t, pointXY) ==
  LET realX == pointXY.x - circleCenterX
      realY == pointXY.y - circleCenterY
  IN Then((Atan2(realY, realX) * 180 * DegUnit) \div PI, LAMBDA a0 :
     Then(IF a0 < 0 THEN a0 + 360 * DegUnit ELSE a0, LAMBDA a1 :
     Then(a1 + 90 * DegUnit, LAMBDA a2 :
     Then(IF a2 >= 360 * DegUnit THEN a2 - 360 * DegUnit ELSE a2, LAMBDA a3 :
       IF t.angleRelativeToHead
       THEN Then(a3 - t.headOrientation, LAMBDA a4 :
                 IF a4 < 0 THEN a4 + 360 * DegUnit ELSE a4)
       ELSE a3))))

----------------------------------------------------------------------------
(* The methods.  t is the object, a record of its fields; a method is an  *)
(* operator from the object before the call to the object after it, and   *)
(* Then(s, LAMBDA t1 : ..) runs the statements s, then those after them   *)
(* on the object t1 that s leaves.                                         *)

\* svg.create(..) and new Point(..) give a new object: the least identity not in use
FreshId(t) ==
  LET used == {t.val[i].pid : i \in 1..Len(t.val)}
              \cup {c[2] : c \in t.children}
              \cup {t.sourceElements[i].id : i \in 1..Len(t.sourceElements)}
              \cup {t.labelElements[i].id : i \in 1..Len(t.labelElements)}
  IN CHOOSE n \in 1..(Cardinality(used) + 1) :
       n \notin used /\ \A m \in 1..(n - 1) : m \in used

\* a TypeError ends the call: the fields keep what was written before it
Throw(t) == [t EXCEPT !.threw = TRUE]

\* this.emit('change', transmitData); the collection and the selection at
\* the time of the emission are kept beside the payload
transmit(t, transmitData) ==
  [t EXCEPT !.emitted = Append(@, [data |-> transmitData, val |-> t.val,
                                   activePoint |-> t.activePoint])]

\* hitScan, keeping the first index found
RECURSIVE hitScanFirst(_, _, _, _, _)
hitScanFirst(v, x, y, i, temp) ==
  IF i >= Len(v) THEN temp
  ELSE LET maxX == At(v, i).x + nodeSize
           minX == At(v, i).x - nodeSize
           maxY == At(v, i).y + nodeSize
           minY == At(v, i).y - nodeSize
       IN Then(IF x <= maxX /\ x >= minX /\ y <= maxY /\ y >= minY /\ temp = undefined
               THEN i ELSE temp,
               LAMBDA temp1 : hitScanFirst(v, x, y, i + 1, temp1))

\* the loop of setActivePoint from index i on, temp so far
RECURSIVE hitScan(_, _, _, _, _)
hitScan(v, x, y, i, temp) ==
  IF i >= Len(v) THEN temp
  ELSE LET maxX == At(v, i).x + nodeSize
           minX == At(v, i).x - nodeSize
           maxY == At(v, i).y + nodeSize
           minY == At(v, i).y - nodeSize
       IN Then(IF x <= maxX /\ x >= minX /\ y <= maxY /\ y >= minY THEN i ELSE temp,
               LAMBDA temp1 : hitScan(v, x, y, i + 1, temp1))

setActivePoint(t, x, y) ==
  [t EXCEPT !.activePoint = hitScan(t.val, x, y, 0, undefined)]

\* clipped, with the cosine and the sine exchanged
clippedSwapped(x, y) ==
  LET distquad == ((x - circleCenterX) * (x - circleCenterX))
                  + ((y - circleCenterY) * (y - circleCenterY))
      realX == x - circleCenterX
      realY == y - circleCenterY
  IN IF distquad > bgRadius * bgRadius
     THEN Then(Atan2(realY, realX), LAMBDA angle :
            [x |-> (bgRadius * Sin(angle)) \div TrigDen + circleCenterX,
             y |-> (bgRadius * Cos(angle)) \div TrigDen + circleCenterY])
     ELSE [x |-> x, y |-> y]

\* the coordinates scaleNode gives a point at (x, y)
clipped(x, y) ==
  LET distquad == ((x - circleCenterX) * (x - circleCenterX))
                  + ((y - circleCenterY) * (y - circleCenterY))
      realX == x - circleCenterX
      realY == y - circleCenterY
  IN IF distquad > bgRadius * bgRadius
     THEN Then(Atan2(realY, realX), LAMBDA angle :
            [x |-> (bgRadius * Cos(angle)) \div TrigDen + circleCenterX,
             y |-> (bgRadius * Sin(angle)) \div TrigDen + circleCenterY])
     ELSE [x |-> x, y |-> y]

scaleNode(t) ==
  IF t.activePoint # undefined
  THEN Then(clipped(At(t.val, t.activePoint).x, At(t.val, t.activePoint).y), LAMBDA c :
         [t EXCEPT !.val = SetAt(@, t.activePoint,
                                 [At(@, t.activePoint) EXCEPT !.x = c.x, !.y = c.y])])
  ELSE t

\* drawEmphasisCircle, without the loop over the other markers
drawEmphasisCircleOnly(t) ==
  IF t.activePoint \notin 0..(Len(t.sourceElements) - 1)
  THEN Throw(t)
  ELSE [t EXCEPT !.sourceElements =
          SetAt(@, t.activePoint, [At(@, t.activePoint) EXCEPT !.stroke = activeBorderColor])]

drawEmphasisCircle(t) ==
  IF t.activePoint \notin 0..(Len(t.sourceElements) - 1)
  THEN Throw(t)
  ELSE [t EXCEPT !.sourceElements =
          [i \in 1..Len(@) |->
             IF i - 1 = t.activePoint
             THEN [@[i] EXCEPT !.stroke = activeBorderColor]
             ELSE [@[i] EXCEPT !.stroke = "none"]]]

\* allDistances, the loop ending one index early
RECURSIVE allDistancesShort(_, _, _)
allDistancesShort(t, i, distances) ==
  IF i >= Len(t.val) - 1 THEN distances
  ELSE Then(Append(distances, calculateDistance(listenerPoint, At(t.val, i))),
            LAMBDA distances1 : allDistancesShort(t, i + 1, distances1))

\* the loop of processToTransmit from index i on
RECURSIVE allDistances(_, _, _)
allDistances(t, i, distances) ==
  IF i >= Len(t.val) THEN distances
  ELSE Then(Append(distances, calculateDistance(listenerPoint, At(t.val, i))),
            LAMBDA distances1 : allDistances(t, i + 1, distances1))

RECURSIVE allAngles(_, _, _)
allAngles(t, i, angles) ==
  IF i >= Len(t.val) THEN angles
  ELSE Then(Append(angles, calculateAngle(t, At(t.val, i))),
            LAMBDA angles1 : allAngles(t, i + 1, angles1))

\* processToTransmit, without the return of mode 1 with no active point
processToTransmitNoReturn(t) ==
  IF t.transmitMode = 0
  THEN transmit(t, [angles |-> allAngles(t, 0, <<>>),
                    distances |-> allDistances(t, 0, <<>>)])
  ELSE IF t.transmitMode = 1 /\ t.activePoint # undefined
  THEN transmit(t, [pointIndex |-> t.activePoint,
                    angle |-> calculateAngle(t, At(t.val, t.activePoint)),
                    distance |-> calculateDistance(listenerPoint,
                                                   At(t.val, t.activePoint))])
  ELSE transmit(t, [undefined |-> TRUE])

processToTransmit(t) ==
  IF t.transmitMode = 0
  THEN transmit(t, [angles |-> allAngles(t, 0, <<>>),
                    distances |-> allDistances(t, 0, <<>>)])
  ELSE IF t.transmitMode = 1
  THEN (IF t.activePoint # undefined
        THEN transmit(t, [pointIndex |-> t.activePoint,
                          angle |-> calculateAngle(t, At(t.val, t.activePoint)),
                          distance |-> calculateDistance(listenerPoint,
                                                         At(t.val, t.activePoint))])
        ELSE t)
  ELSE transmit(t, [undefined |-> TRUE])

generateNewPoint(t, x, y, label, colorIndex) ==
  Then(FreshId(t), LAMBDA pid :
  Then(setActivePoint([t EXCEPT !.val = Append(@, Point(x, y, label, colorIndex, pid))], x, y),
       LAMBDA t1 :
  Then(scaleNode(t1), LAMBDA t2 :
    IF t2.activePoint = undefined
    THEN Throw(t2)
    ELSE LET p == At(t2.val, t2.activePoint)
             sourceElement == [id |-> pid, cx |-> p.x, cy |-> p.y, r |-> nodeSize,
                               fill |-> customColors[colorIndex + 1], stroke |-> "none"]
             labelElement == [id |-> pid, x |-> p.x, y |-> p.y + nodeSize + 20,
                              textContent |-> p.label]
         IN [t2 EXCEPT !.children = @ \cup {<<"circle", pid>>, <<"text", pid>>},
                       !.sourceElements = Append(@, sourceElement),
                       !.labelElements = Append(@, labelElement)])))

\* move, without the call of scaleNode
moveNoClamp(t) ==
  IF t.clickable /\ t.clicked
  THEN IF t.activePoint # undefined
       THEN Then([t EXCEPT !.val = SetAt(@, t.activePoint,
                    [At(@, t.activePoint) EXCEPT !.x = t.mouse.x, !.y = t.mouse.y])],
                 LAMBDA t1 :
            Then(drawEmphasisCircle(t1), LAMBDA t2 :
              IF t2.threw THEN t2
              ELSE LET q == At(t2.val, t2.activePoint)
                   IN Then([t2 EXCEPT
                              !.sourceElements = SetAt(@, t2.activePoint,
                                 [At(@, t2.activePoint) EXCEPT !.cx = q.x, !.cy = q.y]),
                              !.labelElements = SetAt(@, t2.activePoint,
                                 [At(@, t2.activePoint) EXCEPT !.x = q.x,
                                                               !.y = q.y + nodeSize + 20])],
                           LAMBDA t3 : processToTransmit(t3))))
       ELSE processToTransmit(t)
  ELSE t

move(t) ==
  IF t.clickable /\ t.clicked
  THEN IF t.activePoint # undefined
       THEN Then(scaleNode([t EXCEPT !.val = SetAt(@, t.activePoint,
                    [At(@, t.activePoint) EXCEPT !.x = t.mouse.x, !.y = t.mouse.y])]),
                 LAMBDA t1 :
            Then(drawEmphasisCircle(t1), LAMBDA t2 :
              IF t2.threw THEN t2
              ELSE LET q == At(t2.val, t2.activePoint)
                   IN Then([t2 EXCEPT
                              !.sourceElements = SetAt(@, t2.activePoint,
                                 [At(@, t2.activePoint) EXCEPT !.cx = q.x, !.cy = q.y]),
                              !.labelElements = SetAt(@, t2.activePoint,
                                 [At(@, t2.activePoint) EXCEPT !.x = q.x,
                                                               !.y = q.y + nodeSize + 20])],
                           LAMBDA t3 : processToTransmit(t3))))
       ELSE processToTransmit(t)
  ELSE t

\* click, without the test of clickable
clickUnguarded(t) ==
  Then(setActivePoint(t, t.mouse.x, t.mouse.y), LAMBDA t1 :
  Then(IF t1.newPointsGeneratable /\ t1.activePoint = undefined
       THEN generateNewPoint(t1, t1.mouse.x, t1.mouse.y,
                             [text |-> "Point ", n |-> Len(t1.val) + 1],
                             t1.currentColorIndex)
       ELSE t1, LAMBDA t2 :
    IF t2.threw THEN t2
    ELSE Then(scaleNode(t2), LAMBDA t3 :
         Then(processToTransmit(t3), LAMBDA t4 : move(t4)))))

\* click, numbering the label of a new point by the count before it, not plus one
clickLabelFromCount(t) ==
  IF t.clickable
  THEN Then(setActivePoint(t, t.mouse.x, t.mouse.y), LAMBDA t1 :
       Then(IF t1.newPointsGeneratable /\ t1.activePoint = undefined
            THEN generateNewPoint(t1, t1.mouse.x, t1.mouse.y,
                                  [text |-> "Point ", n |-> Len(t1.val)],
                                  t1.currentColorIndex)
            ELSE t1, LAMBDA t2 :
         IF t2.threw THEN t2
         ELSE Then(scaleNode(t2), LAMBDA t3 :
              Then(processToTransmit(t3), LAMBDA t4 : move(t4)))))
  ELSE t

click(t) ==
  IF t.clickable
  THEN Then(setActivePoint(t, t.mouse.x, t.mouse.y), LAMBDA t1 :
       Then(IF t1.newPointsGeneratable /\ t1.activePoint = undefined
            THEN generateNewPoint(t1, t1.mouse.x, t1.mouse.y,
                                  [text |-> "Point ", n |-> Len(t1.val) + 1],
                                  t1.currentColorIndex)
            ELSE t1, LAMBDA t2 :
         IF t2.threw THEN t2
         ELSE Then(scaleNode(t2), LAMBDA t3 :
              Then(processToTransmit(t3), LAMBDA t4 : move(t4)))))
  ELSE t

release(t) ==
  IF t.clickable
  THEN Then(scaleNode(t), LAMBDA t1 : processToTransmit(t1))
  ELSE t

\* toPanel, without the adaptation of the angle (angle -= 90)
toPanelNotAdapted(distance, angle) ==
  Then(IF angle >= 360 * DegUnit THEN angle - 360 * DegUnit ELSE angle, LAMBDA a2 :
  Then(polToCar(distance, a2), LAMBDA tempPoint :
    [x |-> convertToPixels(tempPoint.x) + circleCenterX,
     y |-> convertToPixels(tempPoint.y) + circleCenterY]))

\* the panel coordinates of (distance, angle): the head of addNewPoint and moveExistingPoint
toPanel(distance, angle) ==
  Then(angle - 90 * DegUnit, LAMBDA a1 :
  Then(IF a1 >= 360 * DegUnit THEN a1 - 360 * DegUnit ELSE a1, LAMBDA a2 :
  Then(polToCar(distance, a2), LAMBDA tempPoint :
    [x |-> convertToPixels(tempPoint.x) + circleCenterX,
     y |-> convertToPixels(tempPoint.y) + circleCenterY])))

addNewPoint(t, distance, angle, label, colorIndex) ==
  Then(toPanel(distance, angle), LAMBDA tempPoint :
  Then(generateNewPoint(t, tempPoint.x, tempPoint.y, label, colorIndex), LAMBDA t1 :
    IF t1.threw THEN t1 ELSE drawEmphasisCircle(t1)))

\* moveExistingPoint, without the call of scaleNode at its end
moveExistingPointNoClamp(t, pointIndex, distance, angle) ==
  Then(toPanel(distance, angle), LAMBDA newCoordinates :
    IF pointIndex \notin 0..(Len(t.val) - 1)
    THEN Throw(t)
    ELSE [t EXCEPT
            !.val = SetAt(@, pointIndex,
               [At(@, pointIndex) EXCEPT !.x = newCoordinates.x, !.y = newCoordinates.y]),
            !.sourceElements = SetAt(@, pointIndex,
               [At(@, pointIndex) EXCEPT !.cx = newCoordinates.x,
                                         !.cy = newCoordinates.y]),
            !.labelElements = SetAt(@, pointIndex,
               [At(@, pointIndex) EXCEPT !.x = newCoordinates.x,
                                         !.y = newCoordinates.y + nodeSize + 20])])

moveExistingPoint(t, pointIndex, distance, angle) ==
  Then(toPanel(distance, angle), LAMBDA newCoordinates :
    IF pointIndex \notin 0..(Len(t.val) - 1)
    THEN Throw(t)
    ELSE Then([t EXCEPT
                 !.val = SetAt(@, pointIndex,
                    [At(@, pointIndex) EXCEPT !.x = newCoordinates.x, !.y = newCoordinates.y]),
                 !.sourceElements = SetAt(@, pointIndex,
                    [At(@, pointIndex) EXCEPT !.cx = newCoordinates.x,
                                              !.cy = newCoordinates.y]),
                 !.labelElements = SetAt(@, pointIndex,
                    [At(@, pointIndex) EXCEPT !.x = newCoordinates.x,
                                              !.y = newCoordinates.y + nodeSize + 20])],
              LAMBDA t1 : scaleNode(t1)))

changeColorIndexOfActivePoint(t, colorIndex) ==
  IF t.activePoint # undefined
  THEN [t EXCEPT
          !.val = SetAt(@, t.activePoint,
                        [At(@, t.activePoint) EXCEPT !.colorIndex = colorIndex]),
          !.sourceElements = SetAt(@, t.activePoint,
                        [At(@, t.activePoint) EXCEPT !.fill = customColors[colorIndex + 1]])]
  ELSE t

\* removeActivePoint, without this.activePoint = undefined
removeActivePointKeepIndex(t) ==
  IF t.activePoint # undefined
  THEN [t EXCEPT
          !.children = @ \ {<<"circle", At(t.sourceElements, t.activePoint).id>>,
                            <<"text", At(t.labelElements, t.activePoint).id>>},
          !.sourceElements = Splice(@, t.activePoint),
          !.labelElements = Splice(@, t.activePoint),
          !.val = Splice(@, t.activePoint)]
  ELSE t

\* removeActivePoint, taking the label after the active one out of labelElements
removeActivePointLabelOff(t) ==
  IF t.activePoint # undefined
  THEN [t EXCEPT
          !.children = @ \ {<<"circle", At(t.sourceElements, t.activePoint).id>>,
                            <<"text", At(t.labelElements, t.activePoint).id>>},
          !.sourceElements = Splice(@, t.activePoint),
          !.labelElements = Splice(@, t.activePoint + 1),
          !.val = Splice(@, t.activePoint),
          !.activePoint = undefined]
  ELSE t

\* removeActivePoint, with val.splice(activePoint): every point from the active one on goes
removeActivePointToEnd(t) ==
  IF t.activePoint # undefined
  THEN [t EXCEPT
          !.children = @ \ {<<"circle", At(t.sourceElements, t.activePoint).id>>,
                            <<"text", At(t.labelElements, t.activePoint).id>>},
          !.sourceElements = Splice(@, t.activePoint),
          !.labelElements = Splice(@, t.activePoint),
          !.val = SubSeq(@, 1, t.activePoint),
          !.activePoint = undefined]
  ELSE t

removeActivePoint(t) ==
  IF t.activePoint # undefined
  THEN [t EXCEPT
          !.children = @ \ {<<"circle", At(t.sourceElements, t.activePoint).id>>,
                            <<"text", At(t.labelElements, t.activePoint).id>>},
          !.sourceElements = Splice(@, t.activePoint),
          !.labelElements = Splice(@, t.activePoint),
          !.val = Splice(@, t.activePoint),
          !.activePoint = undefined]
  ELSE t

\* removeLoop, ending one round early
RECURSIVE removeLoopShort(_, _, _)
removeLoopShort(t, i, numberOfPoints) ==
  IF i >= numberOfPoints - 1 THEN t
  ELSE Then([t EXCEPT
               !.val = Splice(@, 0),
               !.children = @ \ {<<"circle", At(t.sourceElements, 0).id>>,
                                 <<"text", At(t.labelElements, 0).id>>},
               !.sourceElements = Splice(@, 0),
               !.labelElements = Splice(@, 0)],
            LAMBDA t1 : removeLoopShort(t1, i + 1, numberOfPoints))

\* the loop of removeAllPoints, i of numberOfPoints rounds done
RECURSIVE removeLoop(_, _, _)
removeLoop(t, i, numberOfPoints) ==
  IF i >= numberOfPoints THEN t
  ELSE Then([t EXCEPT
               !.val = Splice(@, 0),
               !.children = @ \ {<<"circle", At(t.sourceElements, 0).id>>,
                                 <<"text", At(t.labelElements, 0).id>>},
               !.sourceElements = Splice(@, 0),
               !.labelElements = Splice(@, 0)],
            LAMBDA t1 : removeLoop(t1, i + 1, numberOfPoints))

removeAllPoints(t) ==
  Then(removeLoop(t, 0, Len(t.val)), LAMBDA t1 : [t1 EXCEPT !.activePoint = undefined])

----------------------------------------------------------------------------
(* Inputs *)

\* pointer locations: the centre, beside the centre (inside the box of a point
\* at the centre), and outside the circle down the 3-4-5 line
Pointers == {[x |-> 350, y |-> 350], [x |-> 370, y |-> 350], [x |-> 650, y |-> 750]}

\* distances of the programmatic calls, in units of 1/MeterUnit metre: inside and outside the circle
Distances == {1000, 5000}

\* angles of the programmatic calls, in units of 1/DegUnit degree
Angles == {0}

\* colour indices given by callers: one other than the default currentColorIndex
ColorIndices == {1}

\* the label the programmatic calls give
ApiLabel == [text |-> "S", n |-> 1]

----------------------------------------------------------------------------
(* The state machine *)

backgroundCircle == <<"backgroundCircle", 0>>
listener == <<"listener", 0>>

\* the object at the start of a call: nothing emitted or thrown yet in this
\* call.  The host writes this.mouse before every call that reads it, so
\* the pointer is the argument of the call and no state is kept for it.
This ==
  [val |-> val, activePoint |-> activePoint, sourceElements |-> sourceElements,
   labelElements |-> labelElements, children |-> children, mouse |-> [x |-> 0, y |-> 0],
   clicked |-> clicked, clickable |-> clickable,
   newPointsGeneratable |-> newPointsGeneratable, transmitMode |-> transmitMode,
   currentColorIndex |-> currentColorIndex, headOrientation |-> headOrientation,
   angleRelativeToHead |-> angleRelativeToHead, emitted |-> <<>>, threw |-> FALSE]

\* the object after the call op(args) becomes the state; last names the call
\* and its arguments (for the removals, which take none, what they act on:
\* the selection, and the size of the collection, before the call), returned
\* is what was read back after the call
CommitReturn(t, op, args, r) ==
  /\ val' = t.val
  /\ activePoint' = t.activePoint
  /\ sourceElements' = t.sourceElements
  /\ labelElements' = t.labelElements
  /\ children' = t.children
  /\ clicked' = t.clicked
  /\ clickable' = t.clickable
  /\ newPointsGeneratable' = t.newPointsGeneratable
  /\ transmitMode' = t.transmitMode
  /\ currentColorIndex' = t.currentColorIndex
  /\ headOrientation' = t.headOrientation
  /\ angleRelativeToHead' = t.angleRelativeToHead
  /\ emitted' = t.emitted
  /\ threw' = t.threw
  /\ last' = [op |-> op, args |-> args]
  /\ returned' = r

\* the same, nothing read back
Commit(t, op, args) == CommitReturn(t, op, args, <<>>)

Init ==
  /\ val = <<>>
  /\ activePoint = undefined
  /\ sourceElements = <<>>
  /\ labelElements = <<>>
  /\ children = {backgroundCircle, listener}
  /\ clicked = FALSE
  /\ clickable = TRUE
  /\ newPointsGeneratable = TRUE
  /\ transmitMode = 1
  /\ currentColorIndex = 0
  /\ headOrientation = 0
  /\ angleRelativeToHead = FALSE
  /\ emitted = <<>>
  /\ threw = FALSE
  /\ last = [op |-> "constructor", args |-> <<>>]
  /\ returned = <<>>

\* pointer-down: the host records the pointer, marks it held and calls click()
PreClick(m) ==
  \E t0 \in {[This EXCEPT !.mouse = m, !.clicked = TRUE]} :
    \E t \in {click(t0)} :
      /\ Len(t.val) <= MaxPoints
      /\ Commit(t, "click", <<m.x, m.y>>)

\* pointer-move: the host records the pointer and calls move()
PreMove(m) ==
  \E t0 \in {[This EXCEPT !.mouse = m]} :
    \E t \in {move(t0)} : Commit(t, "move", <<m.x, m.y>>)

\* pointer-up: the host marks the pointer not held and calls release(), which
\* does not read the pointer location
PreRelease ==
  \E t0 \in {[This EXCEPT !.clicked = FALSE]} :
    \E t \in {release(t0)} : Commit(t, "release", <<>>)

AddNewPoint(distance, angle, colorIndex) ==
  /\ Len(val) < MaxPoints
  /\ \E t0 \in {This} :
       \E t \in {addNewPoint(t0, distance, angle, ApiLabel, colorIndex)} :
         Commit(t, "addNewPoint", <<distance, angle, colorIndex>>)

MoveExistingPoint(pointIndex, distance, angle) ==
  \E t0 \in {This} :
    \E t \in {moveExistingPoint(t0, pointIndex, distance, angle)} :
      Commit(t, "moveExistingPoint", <<pointIndex, distance, angle>>)

ChangeColorIndexOfActivePoint(colorIndex) ==
  \E t0 \in {This} :
    \E t \in {changeColorIndexOfActivePoint(t0, colorIndex)} :
      Commit(t, "changeColorIndexOfActivePoint", <<colorIndex>>)

RemoveActivePoint ==
  \E t0 \in {This} :
    \E t \in {removeActivePoint(t0)} : Commit(t, "removeActivePoint", <<activePoint>>)

RemoveAllPoints ==
  \E t0 \in {This} :
    \E t \in {removeAllPoints(t0)} : Commit(t, "removeAllPoints", <<Len(val)>>)

\* the public fields are given a new value by the embedding page at any time
SetClickable(b) ==
  \E t \in {[This EXCEPT !.clickable = b]} : Commit(t, "set", <<>>)

SetNewPointsGeneratable(b) ==
  \E t \in {[This EXCEPT !.newPointsGeneratable = b]} : Commit(t, "set", <<>>)

SetTransmitMode(m) ==
  \E t \in {[This EXCEPT !.transmitMode = m]} : Commit(t, "set", <<>>)

Next ==
  \/ \E m \in Pointers : PreClick(m)
  \/ \E m \in Pointers : PreMove(m)
  \/ PreRelease
  \/ \E d \in Distances, a \in Angles, c \in ColorIndices : AddNewPoint(d, a, c)
  \/ \E i \in 0..(MaxPoints - 1), d \in Distances, a \in Angles : MoveExistingPoint(i, d, a)
  \/ \E c \in ColorIndices : ChangeColorIndexOfActivePoint(c)
  \/ RemoveActivePoint
  \/ RemoveAllPoints
  \/ SetClickable(~clickable)
  \/ SetNewPointsGeneratable(~newPointsGeneratable)
  \/ SetTransmitMode(1 - transmitMode)

Spec == Init /\ [][Next]_vars

----------------------------------------------------------------------------
(* The geometric methods on their own: returned holds what the last call   *)
(* of the operation returned.                                              *)

\* distances of addNewPoint, in units of 1/MeterUnit metre: none, inside the
\* circle and on it
RoundTripDistances == {0, 1000, 3000}

\* angles of addNewPoint in [0, 360), in units of 1/DegUnit degree: the axis
\* and the 3-4-5 directions of the four quadrants
RoundTripAngles == {q * 90 * DegUnit + a : q \in 0..3, a \in {0, 3687, 5313}}

\* addNewPoint(distance, angle, ..), then calculateDistance(listenerPoint, p)
\* and calculateAngle(p) of the point p it created
AddNewPointAndReadBack(distance, angle) ==
  /\ Len(val) < MaxPoints
  /\ \E t0 \in {This} :
       \E t \in {addNewPoint(t0, distance, angle, ApiLabel, 0)} :
         \E p \in {At(t.val, Len(t.val) - 1)} :
           CommitReturn(t, "addNewPoint", <<distance, angle>>,
                        [distance |-> calculateDistance(listenerPoint, p),
                         angle |-> calculateAngle(t, p)])

NextRoundTrip ==
  \/ \E d \in RoundTripDistances, a \in RoundTripAngles : AddNewPointAndReadBack(d, a)
  \/ RemoveAllPoints

SpecRoundTrip == Init /\ [][NextRoundTrip]_vars

\* the object stays as it is, the call op(args) returned r
Return(op, args, r) ==
  /\ UNCHANGED <<val, activePoint, sourceElements, labelElements, children, clicked,
                 clickable, newPointsGeneratable, transmitMode, currentColorIndex,
                 headOrientation, angleRelativeToHead>>
  /\ emitted' = <<>>
  /\ threw' = FALSE
  /\ last' = [op |-> op, args |-> args]
  /\ returned' = r

\* values of the public field headOrientation, in units of 1/DegUnit degree:
\* in [0, 360], a turn to the left, more than a full turn
HeadOrientations == {0, 9000, 27000, 36000, -9000, 45000}

\* arguments of calculateAngle: the centre, and points on the axis and the
\* 3-4-5 directions from it
AnglePoints ==
  {[x |-> circleCenterX + dx, y |-> circleCenterY + dy] :
     dx \in {-100, -80, -60, 0, 60, 80, 100},
     dy \in {-100, -80, -60, 0, 60, 80, 100}}
  \cap {p \in [x : 0..width, y : 0..height] :
          (p.x - circleCenterX) * (p.x - circleCenterX)
          + (p.y - circleCenterY) * (p.y - circleCenterY) \in {0, 10000}}

\* the object as constructed, the two public fields of the head set by the page
InitAngle ==
  /\ val = <<>>
  /\ activePoint = undefined
  /\ sourceElements = <<>>
  /\ labelElements = <<>>
  /\ children = {backgroundCircle, listener}
  /\ clicked = FALSE
  /\ clickable = TRUE
  /\ newPointsGeneratable = TRUE
  /\ transmitMode = 1
  /\ currentColorIndex = 0
  /\ headOrientation \in HeadOrientations
  /\ angleRelativeToHead \in BOOLEAN
  /\ emitted = <<>>
  /\ threw = FALSE
  /\ last = [op |-> "constructor", args |-> <<>>]
  /\ returned = <<>>

CalculateAngle(pointXY) ==
  \E t \in {This} :
    Return("calculateAngle", <<pointXY.x, pointXY.y>>, <<calculateAngle(t, pointXY)>>)

NextAngle == \E p \in AnglePoints : CalculateAngle(p)

SpecAngle == InitAngle /\ [][NextAngle]_vars

----------------------------------------------------------------------------
(* setActivePoint on its own, on collections of points whose boxes overlap *)

\* where the points of the collection are: 50 px apart, so that their boxes
\* of half-width nodeSize overlap
HitPositions == {[x |-> 350, y |-> 350], [x |-> 400, y |-> 350], [x |-> 350, y |-> 400]}

\* arguments of setActivePoint: on a point, in two boxes, on the edges of a
\* box and one pixel outside them, far from every point
HitPointers ==
  {[x |-> 350, y |-> 350], [x |-> 370, y |-> 350], [x |-> 380, y |-> 350],
   [x |-> 381, y |-> 350], [x |-> 320, y |-> 350], [x |-> 319, y |-> 350],
   [x |-> 350, y |-> 320], [x |-> 350, y |-> 319], [x |-> 350, y |-> 380],
   [x |-> 350, y |-> 381], [x |-> 500, y |-> 500]}

\* the object after generateNewPoint has put a point at each of the places
\* f[1], f[2], .. and the selection has become a
InitHit ==
  \E n \in 0..MaxPoints : \E f \in [1..n -> HitPositions] :
    /\ val = [i \in 1..n |-> Point(f[i].x, f[i].y, [text |-> "Point ", n |-> i], 0, i)]
    /\ sourceElements = [i \in 1..n |->
                           [id |-> i, cx |-> f[i].x, cy |-> f[i].y, r |-> nodeSize,
                            fill |-> customColors[1], stroke |-> "none"]]
    /\ labelElements = [i \in 1..n |->
                          [id |-> i, x |-> f[i].x, y |-> f[i].y + nodeSize + 20,
                           textContent |-> [text |-> "Point ", n |-> i]]]
    /\ children = {backgroundCircle, listener}
                  \cup {<<"circle", i>> : i \in 1..n} \cup {<<"text", i>> : i \in 1..n}
    /\ activePoint \in {undefined} \cup 0..(n - 1)
    /\ clicked = FALSE
    /\ clickable = TRUE
    /\ newPointsGeneratable = TRUE
    /\ transmitMode = 1
    /\ currentColorIndex = 0
    /\ headOrientation = 0
    /\ angleRelativeToHead = FALSE
    /\ emitted = <<>>
    /\ threw = FALSE
    /\ last = [op |-> "constructor", args |-> <<>>]
    /\ returned = <<>>

SetActivePoint(x, y) ==
  \E t0 \in {This} :
    \E t \in {setActivePoint(t0, x, y)} : Commit(t, "setActivePoint", <<x, y>>)

NextHit == \E m \in HitPointers : SetActivePoint(m.x, m.y)

SpecHit == InitHit /\ [][NextHit]_vars

----------------------------------------------------------------------------
(* Properties *)

\* squared pixel distance of a point from the panel centre
Dist2(p) ==
  ((p.x - circleCenterX) * (p.x - circleCenterX))
  + ((p.y - circleCenterY) * (p.y - circleCenterY))

\* the operation of this step changes the position stored for a point: after
\* it some point of val is not in val with the same identity and coordinates
PositionChanged ==
  \E i \in 1..Len(val') :
    \A j \in 1..Len(val) :
      ~(val[j].pid = val'[i].pid /\ val[j].x = val'[i].x /\ val[j].y = val'[i].y)

\* the identities of the points of a collection, in index order
Pids(v) == [i \in 1..Len(v) |-> v[i].pid]

\* C1: after any sequence of operations every point of val is at a pixel
\* distance from the panel centre that does not exceed bgRadius.
C1_AllPointsWithinRadius ==
  \A i \in 1..Len(val) : Dist2(val[i]) <= bgRadius * bgRadius

\* C2: at the end of every operation val, sourceElements and labelElements
\* have the same length, the marker and the label at index i are the ones
\* created for the point at index i, and the render target holds exactly the
\* background, the listener and these markers and labels.
C2_Lockstep ==
  /\ Len(sourceElements) = Len(val)
  /\ Len(labelElements) = Len(val)
  /\ \A i \in 1..Len(val) :
       /\ sourceElements[i].id = val[i].pid
       /\ labelElements[i].id = val[i].pid
  /\ children = {backgroundCircle, listener}
                \cup {<<"circle", val[i].pid>> : i \in 1..Len(val)}
                \cup {<<"text", val[i].pid>> : i \in 1..Len(val)}

\* C2's case: the first of two points was removed, so the second point, its
\* marker and its label all moved down to index 0
C2_Witness ==
  /\ last = [op |-> "removeActivePoint", args |-> <<0>>]
  /\ Len(val) = 1
  /\ val[1].pid = 2
  /\ sourceElements[1].id = 2

\* C3: every operation that changes the stored x or y of a point in val
\* emits a 'change' event in the same operation.
C3_ChangeFiresOnEveryPositionChange ==
  [][PositionChanged => emitted' # <<>>]_vars

\* C4: with transmitMode 1 every event an operation emits is emitted while a
\* point is active and its payload is {pointIndex, angle, distance} of that
\* point; a click, move or release that leaves no point active emits nothing.
C4_ActiveOnly ==
  transmitMode = 1 =>
    /\ \A k \in 1..Len(emitted) :
         /\ emitted[k].activePoint # undefined
         /\ DOMAIN emitted[k].data = {"pointIndex", "angle", "distance"}
         /\ emitted[k].data.pointIndex = emitted[k].activePoint
         /\ emitted[k].data.distance =
              calculateDistance(listenerPoint, At(emitted[k].val, emitted[k].activePoint))
         /\ emitted[k].data.angle =
              calculateAngle(This, At(emitted[k].val, emitted[k].activePoint))
    /\ (last.op \in {"click", "move", "release"} /\ activePoint = undefined)
         => emitted = <<>>

\* C4's case: a release with interaction enabled, a point in the collection
\* and none active, in mode 1: nothing was emitted
C4_Witness ==
  /\ transmitMode = 1
  /\ clickable
  /\ last.op = "release"
  /\ Len(val) = 1
  /\ activePoint = undefined
  /\ emitted = <<>>

\* C5: with transmitMode 0 every emitted payload has distances and angles of
\* the length of val at emission time, entry i of each is the distance and the
\* angle of the point at index i, and a release with interaction enabled emits
\* one event whatever the collection and the selection are.
C5_AllMode ==
  transmitMode = 0 =>
    /\ \A k \in 1..Len(emitted) :
         /\ DOMAIN emitted[k].data = {"angles", "distances"}
         /\ Len(emitted[k].data.distances) = Len(emitted[k].val)
         /\ Len(emitted[k].data.angles) = Len(emitted[k].val)
         /\ \A i \in 1..Len(emitted[k].val) :
              /\ emitted[k].data.distances[i] =
                   calculateDistance(listenerPoint, emitted[k].val[i])
              /\ emitted[k].data.angles[i] = calculateAngle(This, emitted[k].val[i])
    /\ (last.op = "release" /\ clickable) => Len(emitted) = 1

\* C5's case: a release in mode 0 with two points at different distances and
\* none of them active emitted the two distances in index order
C5_Witness ==
  /\ transmitMode = 0
  /\ last.op = "release"
  /\ activePoint = undefined
  /\ Len(val) = 2
  /\ Len(emitted) = 1
  /\ emitted[1].data.distances[1] # emitted[1].data.distances[2]

\* C6: with clickable false click, move and release leave val, activePoint,
\* sourceElements and labelElements unchanged and emit nothing, in both modes.
C6_DisabledIsNoOp ==
  [][(~clickable /\ last'.op \in {"click", "move", "release"})
       => /\ UNCHANGED <<val, activePoint, sourceElements, labelElements>>
          /\ emitted' = <<>>]_vars

\* C6's case: with clickable false a pointer-down on the only point, at the
\* centre, left it unselected
C6_Witness ==
  /\ ~clickable
  /\ last = [op |-> "click", args |-> <<350, 350>>]
  /\ Len(val) = 1
  /\ val[1].x = 350 /\ val[1].y = 350
  /\ activePoint = undefined

\* the indices (from 1) of the points of val whose box holds the pointer (x, y)
HitSet(x, y) ==
  {i \in 1..Len(val) : /\ val[i].x - nodeSize <= x /\ x <= val[i].x + nodeSize
                       /\ val[i].y - nodeSize <= y /\ y <= val[i].y + nodeSize}

\* the distances the events of an operation carry
EmittedDistances(e) ==
  {IF transmitMode = 1 THEN <<e[k].data.distance>> ELSE e[k].data.distances
     : k \in 1..Len(e)}

\* C7: a pointer-down with clickable set selects a point it hits and creates
\* none; if it hits none and newPointsGeneratable is set it appends exactly
\* one point, labelled "Point " + (previous count + 1), coloured
\* currentColorIndex and selected; if it hits none and newPointsGeneratable is
\* false it creates none.  At the panel centre on an empty collection it gives
\* length 1, active index 0 and emitted distance 0.
C7_PointerDown ==
  [][(clickable /\ last'.op = "click")
       => /\ HitSet(last'.args[1], last'.args[2]) # {}
               => /\ Pids(val') = Pids(val)
                  /\ activePoint' + 1 \in HitSet(last'.args[1], last'.args[2])
          /\ (HitSet(last'.args[1], last'.args[2]) = {} /\ newPointsGeneratable)
               => /\ Len(val') = Len(val) + 1
                  /\ SubSeq(Pids(val'), 1, Len(val)) = Pids(val)
                  /\ \A i \in 1..Len(val) : val'[Len(val')].pid # val[i].pid
                  /\ val'[Len(val')].label = [text |-> "Point ", n |-> Len(val) + 1]
                  /\ val'[Len(val')].colorIndex = currentColorIndex
                  /\ activePoint' = Len(val') - 1
          /\ (HitSet(last'.args[1], last'.args[2]) = {} /\ ~newPointsGeneratable)
               => /\ Pids(val') = Pids(val)
                  /\ activePoint' = undefined
          /\ (val = <<>> /\ newPointsGeneratable
              /\ last'.args = <<circleCenterX, circleCenterY>>)
               => /\ Len(val') = 1
                  /\ activePoint' = 0
                  /\ EmittedDistances(emitted') = {<<0>>}]_vars

\* C7's case: a pointer-down outside the boxes of the one point there was
\* created the second point, labelled "Point 2", and selected it
C7_Witness ==
  /\ clickable
  /\ last = [op |-> "click", args |-> <<650, 750>>]
  /\ Len(val) = 2
  /\ val[2].label = [text |-> "Point ", n |-> 2]
  /\ val[2].colorIndex = currentColorIndex
  /\ activePoint = 1

\* post is what clamping makes of pre: pre itself inside the circle, else the
\* point of the circle in the direction of pre from the centre
Clamped(pre, post) ==
  IF Dist2(pre) <= bgRadius * bgRadius
  THEN post.x = pre.x /\ post.y = pre.y
  ELSE /\ Dist2(post) = bgRadius * bgRadius
       /\ (pre.x - circleCenterX) * (post.y - circleCenterY)
            = (pre.y - circleCenterY) * (post.x - circleCenterX)
       /\ (pre.x - circleCenterX) * (post.x - circleCenterX)
            + (pre.y - circleCenterY) * (post.y - circleCenterY) > 0

\* C8: the clamp of a move while held, and of a release, changes only the
\* active point: a location inside the circle is stored as it is, one outside
\* is stored at distance exactly bgRadius from the centre in the same
\* direction; with no active point nothing is changed.
C8_ClampOnlyActive ==
  [][/\ (clickable /\ last'.op \in {"move", "release"})
          => /\ Len(val') = Len(val)
             /\ \A i \in 1..Len(val) : i # activePoint + 1 => val'[i] = val[i]
     /\ (clickable /\ clicked /\ last'.op = "move" /\ activePoint # undefined)
          => Clamped([x |-> last'.args[1], y |-> last'.args[2]], At(val', activePoint))
     /\ (clickable /\ last'.op = "release" /\ activePoint # undefined)
          => Clamped(At(val, activePoint), At(val', activePoint))]_vars

\* C8's case: the second point, held, was dragged to (650, 750), outside the
\* circle, and is stored at (530, 590), on the circle in that direction
C8_Witness ==
  /\ clickable /\ clicked
  /\ last = [op |-> "move", args |-> <<650, 750>>]
  /\ Len(val) = 2
  /\ activePoint = 1
  /\ val[2].x = 530 /\ val[2].y = 590
  /\ val[1].x = 350 /\ val[1].y = 350

\* C9: removeActivePoint with the point at index k active deletes that point,
\* its marker and its label: the three sequences lose the entry at k, the
\* entries below k stay, those above k move down by one unchanged, the marker
\* and the label leave the render target and activePoint becomes undefined;
\* with no active point it changes nothing.
C9_RemoveActive ==
  [][last'.op = "removeActivePoint"
       => IF activePoint # undefined
          THEN /\ Len(val') = Len(val) - 1
               /\ \A i \in 1..Len(val') :
                    /\ val'[i] = val[IF i <= activePoint THEN i ELSE i + 1]
                    /\ sourceElements'[i] =
                         sourceElements[IF i <= activePoint THEN i ELSE i + 1]
                    /\ labelElements'[i] =
                         labelElements[IF i <= activePoint THEN i ELSE i + 1]
               /\ Len(sourceElements') = Len(val')
               /\ Len(labelElements') = Len(val')
               /\ children' = children \ {<<"circle", At(val, activePoint).pid>>,
                                          <<"text", At(val, activePoint).pid>>}
               /\ activePoint' = undefined
          ELSE UNCHANGED <<val, sourceElements, labelElements, children, activePoint>>]_vars

\* C9's case: of two points the one at index 0 was active and was removed; the
\* point labelled "Point 2" and its label are now at index 0
C9_Witness ==
  /\ last.op = "removeActivePoint"
  /\ last.args = <<0>>
  /\ Len(val) = 1
  /\ val[1].label = [text |-> "Point ", n |-> 2]
  /\ labelElements[1].textContent = val[1].label
  /\ activePoint = undefined

\* C10: after removeAllPoints val, sourceElements and labelElements are
\* empty, activePoint is undefined and the render target holds no marker and
\* no label: only the background and the listener.
C10_RemoveAll ==
  last.op = "removeAllPoints"
    => /\ val = <<>>
       /\ sourceElements = <<>>
       /\ labelElements = <<>>
       /\ activePoint = undefined
       /\ children = {backgroundCircle, listener}

\* C10's case: removeAllPoints was called with two points in the collection
C10_Witness ==
  /\ last = [op |-> "removeAllPoints", args |-> <<2>>]
  /\ val = <<>>
  /\ children = {backgroundCircle, listener}


\* C11: addNewPoint(distance, angle, ..), distance >= 0 within the boundary
\* and angle in [0, 360), followed by calculateDistance and calculateAngle of
\* the created point, returns (distance, angle).
C11_RoundTrip ==
  last.op = "addNewPoint"
    => returned = [distance |-> last.args[1], angle |-> last.args[2]]

\* C11 as amended: the same for every distance > 0.
C11_RoundTripPositive ==
  (last.op = "addNewPoint" /\ last.args[1] > 0)
    => returned = [distance |-> last.args[1], angle |-> last.args[2]]

\* C11's case: addNewPoint(1.0, 36.87, ..) put a point at (410, 270), 60 px
\* right of and 80 px above the centre, and its distance and angle were read
\* back
C11_Witness ==
  /\ last = [op |-> "addNewPoint", args |-> <<1000, 3687>>]
  /\ val[Len(val)].x = 410 /\ val[Len(val)].y = 270
  /\ returned = [distance |-> 1000, angle |-> 3687]


\* C12: moveExistingPoint with an index outside 0..val.length-1, and
\* changeColorIndexOfActivePoint with no active point, raise no error and
\* leave val, activePoint and the visuals unchanged.
C12_OutOfRangeIgnored ==
  [][((last'.op = "moveExistingPoint" /\ last'.args[1] \notin 0..(Len(val) - 1))
      \/ (last'.op = "changeColorIndexOfActivePoint" /\ activePoint = undefined))
       => /\ ~threw'
          /\ UNCHANGED <<val, activePoint, sourceElements, labelElements, children>>]_vars


\* the angle calculateAngle returns with angleRelativeToHead false
AbsoluteAngle(pointXY) == calculateAngle([This EXCEPT !.angleRelativeToHead = FALSE], pointXY)

\* C13: calculateAngle returns a value in [0, 360) for every point and every
\* setting of headOrientation and angleRelativeToHead; with
\* angleRelativeToHead set it is the absolute angle minus headOrientation,
\* renormalised into [0, 360).
C13_AngleInRange ==
  last.op = "calculateAngle"
    => /\ 0 <= returned[1] /\ returned[1] < 360 * DegUnit
       /\ angleRelativeToHead
            => returned[1] =
                 (AbsoluteAngle([x |-> last.args[1], y |-> last.args[2]]) - headOrientation)
                   % (360 * DegUnit)


\* the largest number of a nonempty finite set of numbers
Max(S) == CHOOSE m \in S : \A n \in S : n <= m

\* C14: setActivePoint(x, y) sets activePoint to the highest index whose box
\* [x - nodeSize, x + nodeSize] x [y - nodeSize, y + nodeSize], edges
\* included, holds (x, y), and to undefined if there is none; it changes
\* nothing else, and the same call again gives the same index.
C14_HitTest ==
  [][last'.op = "setActivePoint"
       => /\ activePoint' = IF HitSet(last'.args[1], last'.args[2]) = {} THEN undefined
                            ELSE Max(HitSet(last'.args[1], last'.args[2])) - 1
          /\ UNCHANGED <<val, sourceElements, labelElements, children, clicked, clickable,
                         newPointsGeneratable, transmitMode, currentColorIndex,
                         headOrientation, angleRelativeToHead>>
          /\ ~threw'
          /\ last = last' => activePoint' = activePoint]_vars

\* C14's case: (370, 350) is in the box of the point at (350, 350), index 0,
\* and in the box of the point at (400, 350), index 1: index 1 is selected
C14_Witness ==
  /\ last = [op |-> "setActivePoint", args |-> <<370, 350>>]
  /\ Len(val) = 2
  /\ val[1].x = 350 /\ val[2].x = 400
  /\ activePoint = 1


\* C15: at the end of every operation the marker at index i has cx = val[i].x
\* and cy = val[i].y, and the label at index i has x = val[i].x and
\* y = val[i].y + nodeSize + 20.
C15_VisualsMirrorStore ==
  \A i \in 1..Len(val) :
    /\ i <= Len(sourceElements)
         => sourceElements[i].cx = val[i].x /\ sourceElements[i].cy = val[i].y
    /\ i <= Len(labelElements)
         => labelElements[i].x = val[i].x /\ labelElements[i].y = val[i].y + nodeSize + 20


\* the coordinates of p are those of q
SamePlace(p, q) == p.x = q.x /\ p.y = q.y

\* C16: moveExistingPoint(index, distance, angle) with a valid index writes
\* the panel coordinates of (distance, angle) to the point at index and then
\* clamps the active point, which need not be the moved one; the size of the
\* collection, the active index, the labels and colours, and the coordinates
\* of every point that is neither the moved nor the active one stay.
C16_MoveExisting ==
  [][(last'.op = "moveExistingPoint" /\ last'.args[1] \in 0..(Len(val) - 1))
       => /\ ~threw'
          /\ Len(val') = Len(val)
          /\ activePoint' = activePoint
          /\ \A i \in 1..Len(val) :
               /\ val'[i].label = val[i].label
               /\ val'[i].colorIndex = val[i].colorIndex
               /\ val'[i].pid = val[i].pid
               /\ i \notin {last'.args[1] + 1, activePoint + 1} => SamePlace(val'[i], val[i])
          /\ last'.args[3] = 0
               => toPanel(last'.args[2], last'.args[3])
                    = [x |-> circleCenterX,
                       y |-> circleCenterY - convertToPixels(last'.args[2])]
          /\ IF last'.args[1] = activePoint
             THEN Clamped(toPanel(last'.args[2], last'.args[3]), At(val', activePoint))
             ELSE /\ SamePlace(At(val', last'.args[1]),
                               toPanel(last'.args[2], last'.args[3]))
                  /\ activePoint # undefined
                       => Clamped(At(val, activePoint), At(val', activePoint))]_vars

\* C16's case: with the point at index 1 active, the point at index 0 was
\* moved to distance 5.0 at angle 0 and is stored there, at (350, -150),
\* outside the circle
C16_Witness ==
  /\ last = [op |-> "moveExistingPoint", args |-> <<0, 5000, 0>>]
  /\ ~threw
  /\ Len(val) = 2
  /\ activePoint = 1
  /\ val[1].x = 350 /\ val[1].y = -150


\* C17: after a pointer-move while held with an active point, and after
\* addNewPoint, the marker of the active point has stroke activeBorderColor
\* and every other marker has stroke 'none'.
C17_Emphasis ==
  ((last.op = "addNewPoint" /\ ~threw)
   \/ (last.op = "move" /\ clickable /\ clicked /\ activePoint # undefined))
    => \A i \in 1..Len(sourceElements) :
         sourceElements[i].stroke =
           IF i = activePoint + 1 THEN activeBorderColor ELSE "none"

\* C17's case: of two markers the first is the active one after a move while
\* held: it has the border and the second has none
C17_Witness ==
  /\ last.op = "move"
  /\ clickable /\ clicked
  /\ Len(sourceElements) = 2
  /\ activePoint = 0
  /\ sourceElements[1].stroke = activeBorderColor
  /\ sourceElements[2].stroke = "none"


\* C18: with transmitMode 1 every event emitted by click, move or release
\* carries the active index at emission time and the distance and angle of
\* that point's coordinates after clamping, so the emitted distance never
\* exceeds bgRadius / meterScale.
C18_PayloadAfterClamp ==
  (transmitMode = 1 /\ last.op \in {"click", "move", "release"})
    => \A k \in 1..Len(emitted) :
         /\ emitted[k].activePoint \in 0..(Len(emitted[k].val) - 1)
         /\ emitted[k].data.pointIndex = emitted[k].activePoint
         /\ Dist2(At(emitted[k].val, emitted[k].activePoint)) <= bgRadius * bgRadius
         /\ (emitted[k].data.distance * meterScale) % MeterUnit = 0
         /\ ((emitted[k].data.distance * meterScale) \div MeterUnit)
              * ((emitted[k].data.distance * meterScale) \div MeterUnit)
              = Dist2(At(emitted[k].val, emitted[k].activePoint))
         /\ emitted[k].data.angle =
              calculateAngle(This, At(emitted[k].val, emitted[k].activePoint))
         /\ emitted[k].data.distance <= convertToMeters(bgRadius)

\* C18's case: the drag to (650, 750), 500 px from the centre, emitted the
\* distance of the clamped point, 3.0 = bgRadius / meterScale
C18_Witness ==
  /\ transmitMode = 1
  /\ last = [op |-> "move", args |-> <<650, 750>>]
  /\ Len(emitted) = 1
  /\ emitted[1].data.pointIndex = activePoint
  /\ emitted[1].data.distance = 3000


\* C19: in every reachable state activePoint is undefined or an index of val,
\* 0 <= activePoint < val.length.
C19_ActiveIndexInRange ==
  activePoint = undefined \/ activePoint \in 0..(Len(val) - 1)

\* C19's case: the last of two points was the active one and was removed; the
\* index it had is past the end now, and activePoint is undefined
C19_Witness ==
  /\ last = [op |-> "removeActivePoint", args |-> <<1>>]
  /\ Len(val) = 1
  /\ activePoint = undefined

\* C20: at the end of every operation a marker that has the highlighted
\* border is the marker of the active point (so at most one has it, and none
\* when no point is active).
C20_HighlightIsActive ==
  \A i \in 1..Len(sourceElements) :
    sourceElements[i].stroke = activeBorderColor => activePoint = i - 1

====
